---- MODULE Spec2Model ----
(***************************************************************************)
(* NFL Draft Order Simulator (src/app.py).                                 *)
(*                                                                         *)
(* Two specifications:                                                     *)
(*   Spec      the Streamlit script: the schedule is loaded once, every    *)
(*             user interaction re-runs the whole script (radio loop,      *)
(*             prediction processing, calculate_stats, SOS, draft order).  *)
(*   SpecCalc  calculate_stats as a function of an arbitrary game list     *)
(*             (null scores included), its row loop taken one row at a     *)
(*             time, followed by the standings / SOS / draft order code.   *)
(*                                                                         *)
(* Floats: every float the program computes is a quotient of two small     *)
(* integers, (2w + t) / (2g).  IEEE division is correctly rounded, so two  *)
(* such quotients are equal (smaller) as floats exactly when they are      *)
(* equal (smaller) as rationals at these magnitudes.  A float is modelled  *)
(* as that rational in lowest terms, [num, den].                           *)
(***************************************************************************)
EXTENDS Integers, Sequences, FiniteSets, TLC

\* ------------------------------------------------------------------ bounds
\* Longest schedule file drawn in Init.
MaxGames == 2

\* pd.to_numeric(errors='coerce') marks a missing / unparseable score NaN.
NaN == -1

\* Team identifiers and score values the schedule rows are drawn from.
Teams == {"A", "B", "C"}
\* <<home_score, away_score>> as read from the file: a home win, an away win,
\* a tie, and the three ways a score can be missing.
ScorePairs == {<<1, 0>>, <<0, 1>>, <<1, 1>>, <<NaN, NaN>>, <<NaN, 1>>, <<1, NaN>>}


\* ------------------------------------------------------------------ utils
RECURSIVE GCD(_, _)
GCD(a, b) == IF b = 0 THEN a ELSE GCD(b, a % b)

\* The float n / d (d > 0), as the rational in lowest terms.
FloatDiv(n, d) == LET g == GCD(n, d) IN [num |-> n \div g, den |-> d \div g]

Zero == [num |-> 0, den |-> 1]

FloatLess(x, y) == x.num * y.den < y.num * x.den

\* dict.get(key, default)
Get(d, k, default) == IF k \in DOMAIN d THEN d[k] ELSE default

\* dict[key] = value
Put(d, k, v) == [x \in DOMAIN d \cup {k} |-> IF x = k THEN v ELSE d[x]]

EmptyDict == [x \in {} |-> 0]

\* pd.isna on a score
isna(x) == x = NaN

\* Python's > on floats: False whenever an operand is NaN.
Gt(x, y) == ~isna(x) /\ ~isna(y) /\ x > y

RECURSIVE Unique(_, _)
\* pd.unique: the values of xs in order of first appearance (seen so far: acc)
Unique(xs, acc) ==
    IF xs = <<>> THEN acc
    ELSE IF \E i \in 1..Len(acc) : acc[i] = Head(xs)
         THEN Unique(Tail(xs), acc)
         ELSE Unique(Tail(xs), Append(acc, Head(xs)))

Column(df, c) == [i \in 1..Len(df) |-> df[i][c]]

\* ------------------------------------------------------------- load_data
\* The rows of nfl_schedule_2025.csv: row i is game i (the dummy game_id is
\* the row index), home and away are different teams, a score may be absent.
\* Team identifiers are opaque to the computation, so the first row's home
\* team is called "A" and its away team "B".
CsvRows ==
    {[home_team |-> h, away_team |-> a, home_score |-> s[1], away_score |-> s[2]] :
        h \in Teams, a \in Teams, s \in ScorePairs}

CsvFiles ==
    UNION {{f \in [1..n -> CsvRows] :
               /\ \A i \in 1..n : f[i].home_team # f[i].away_team
               /\ n > 0 => f[1].home_team = "A" /\ f[1].away_team = "B"} :
           n \in 0..MaxGames}

Status(row) ==
    IF isna(row.home_score) \/ isna(row.away_score) THEN "Scheduled" ELSE "Final"

load_data(csv) ==
    [i \in 1..Len(csv) |->
        [week |-> i, home_team |-> csv[i].home_team, away_team |-> csv[i].away_team,
         home_score |-> csv[i].home_score, away_score |-> csv[i].away_score,
         status |-> Status(csv[i]), game_id |-> i]]

\* ------------------------------------------------------------ predictions
Options == <<"Away", "Tie", "Home">>

\* (mutant) an untouched game starts on the first option
RadioIndexDefaultAway(current_pick) ==
    IF current_pick = "Home" THEN 2
    ELSE IF current_pick = "Tie" THEN 1
    ELSE 0

\* the index= argument of st.radio (0-based)
RadioIndex(current_pick) ==
    IF current_pick = "Away" THEN 0
    ELSE IF current_pick = "Home" THEN 2
    ELSE IF current_pick = "Tie" THEN 1
    ELSE 1

\* st.radio(..., key=radio_<game_id>): a widget that already has a value in
\* the session keeps it; a new widget starts at options[index].
RadioValue(widget, game_id, current_pick) ==
    IF game_id \in DOMAIN widget THEN widget[game_id]
    ELSE Options[RadioIndex(current_pick) + 1]

\* (mutant) a pick once stored is never overwritten
StorePickKeepFirst(picks, game_id, selection) ==
    IF game_id \in DOMAIN picks THEN picks ELSE Put(picks, game_id, selection)

\* session_state['user_picks'][game_id] = selection
StorePick(picks, game_id, selection) == Put(picks, game_id, selection)

RECURSIVE UiLoop(_, _, _)
\* The radio loop over the scheduled games: <<user_picks, widget state>> after.
UiLoop(rows, picks, widget) ==
    IF rows = <<>> THEN <<picks, widget>>
    ELSE LET game_id == Head(rows).game_id
             current_pick == Get(picks, game_id, "TBD")
             selection == RadioValue(widget, game_id, current_pick)
         IN UiLoop(Tail(rows), StorePick(picks, game_id, selection),
                   Put(widget, game_id, selection))

\* (mutant) the scores of the two picks exchanged
PickScoresSwapped(pick) ==
    IF pick = "Home" THEN <<10, 21>>
    ELSE IF pick = "Away" THEN <<21, 10>>
    ELSE <<20, 20>>

\* <<h_score, a_score>> assigned to a pick
PickScores(pick) ==
    IF pick = "Home" THEN <<21, 10>>
    ELSE IF pick = "Away" THEN <<10, 21>>
    ELSE <<20, 20>>

SimulatedRow(row, picks) ==
    LET pick == Get(picks, row.game_id, "TBD")
        s == PickScores(pick)
    IN [week |-> row.week, home_team |-> row.home_team, away_team |-> row.away_team,
        home_score |-> s[1], away_score |-> s[2], status |-> "Simulated",
        game_id |-> NaN]

IsFinal(row) == row.status = "Final"
IsScheduled(row) == row.status = "Scheduled"

final_games(df) == SelectSeq(df, IsFinal)
scheduled_games(df) == SelectSeq(df, IsScheduled)

simulated_results(df, picks) ==
    LET sched == scheduled_games(df)
    IN [i \in 1..Len(sched) |-> SimulatedRow(sched[i], picks)]

\* pd.concat([final_games, sim_df]); final_games alone when nothing is scheduled
FullSeason(df, picks) == final_games(df) \o simulated_results(df, picks)

\* -------------------------------------------------------- calculate_stats
\* pd.unique over the two columns flattened in memory order: the home_team
\* column first, then the away_team column.
AllTeams(games_df) ==
    Unique(Column(games_df, "home_team") \o Column(games_df, "away_team"), <<>>)

TeamSet(games_df) == {AllTeams(games_df)[i] : i \in 1..Len(AllTeams(games_df))}

SkipRow(row) == isna(row.home_score) \/ isna(row.away_score)

ZeroRecord == [wins |-> 0, losses |-> 0, ties |-> 0, games |-> 0, opponents |-> <<>>]

\* (mutant) records only for the teams of games with both scores
InitStatsDecidedOnly(games_df) ==
    [t \in {games_df[i].home_team : i \in {j \in 1..Len(games_df) :
                                                ~SkipRow(games_df[j])}}
         \cup {games_df[i].away_team : i \in {j \in 1..Len(games_df) :
                                                  ~SkipRow(games_df[j])}} |-> ZeroRecord]

InitStats(games_df) == [t \in TeamSet(games_df) |-> ZeroRecord]

\* (mutant) games counted for the home team only
PlayedGamesHomeOnly(st, h, a) ==
    [t \in DOMAIN st |->
        IF t = h THEN [st[t] EXCEPT !.opponents = Append(@, a), !.games = @ + 1]
        ELSE IF t = a THEN [st[t] EXCEPT !.opponents = Append(@, h)]
        ELSE st[t]]

\* (mutant) the home team is not appended to the away team's opponents
PlayedHomeListOnly(st, h, a) ==
    [t \in DOMAIN st |->
        IF t = h THEN [st[t] EXCEPT !.opponents = Append(@, a), !.games = @ + 1]
        ELSE IF t = a THEN [st[t] EXCEPT !.games = @ + 1]
        ELSE st[t]]

\* stats[h]['opponents'].append(a); stats[a]['opponents'].append(h); games += 1
Played(st, h, a) ==
    [t \in DOMAIN st |->
        IF t = h THEN [st[t] EXCEPT !.opponents = Append(@, a), !.games = @ + 1]
        ELSE IF t = a THEN [st[t] EXCEPT !.opponents = Append(@, h), !.games = @ + 1]
        ELSE st[t]]

\* (mutant) a tie credited to the home team only
ClassifiedTieHomeOnly(st, h, a, h_s, a_s) ==
    IF Gt(h_s, a_s)
    THEN [st EXCEPT ![h].wins = @ + 1, ![a].losses = @ + 1]
    ELSE IF Gt(a_s, h_s)
    THEN [st EXCEPT ![a].wins = @ + 1, ![h].losses = @ + 1]
    ELSE [st EXCEPT ![h].ties = @ + 1]

\* the if / elif / else on the two scores
Classified(st, h, a, h_s, a_s) ==
    IF Gt(h_s, a_s)
    THEN [st EXCEPT ![h].wins = @ + 1, ![a].losses = @ + 1]
    ELSE IF Gt(a_s, h_s)
    THEN [st EXCEPT ![a].wins = @ + 1, ![h].losses = @ + 1]
    ELSE [st EXCEPT ![h].ties = @ + 1, ![a].ties = @ + 1]

\* (mutant) no skip: with a NaN score both comparisons are False, a tie
StatsRowNoSkip(st, row) ==
    Classified(Played(st, row.home_team, row.away_team),
               row.home_team, row.away_team, row.home_score, row.away_score)

\* one iteration of the loop over games_df.iterrows()
StatsRow(st, row) ==
    IF SkipRow(row) THEN st
    ELSE Classified(Played(st, row.home_team, row.away_team),
                    row.home_team, row.away_team, row.home_score, row.away_score)

RECURSIVE StatsLoop(_, _)
StatsLoop(st, rows) ==
    IF rows = <<>> THEN st ELSE StatsLoop(StatsRow(st, Head(rows)), Tail(rows))

calculate_stats(games_df) == StatsLoop(InitStats(games_df), games_df)

\* -------------------------------------------------------------- standings
\* (wins + 0.5 * ties) / games, 0 for a team without games
WinPct(data) ==
    IF data.games > 0 THEN FloatDiv(2 * data.wins + data.ties, 2 * data.games)
    ELSE Zero

StandingsRow(st, team) ==
    [Team |-> team, W |-> st[team].wins, L |-> st[team].losses, T |-> st[team].ties,
     WinPct |-> WinPct(st[team]), Opponents |-> st[team].opponents]

\* one row per item of stats, in the dict's insertion order (teams)
StandingsRows(st, teams) == [i \in 1..Len(teams) |-> StandingsRow(st, teams[i])]

\* ------------------------------------------------------------------- SOS
\* opp_w += ow; opp_l += ol; opp_t += ot; opp_records_str.append(...)
AddOpponent(acc, st, opp) ==
    IF opp \in DOMAIN st
    THEN [opp_w |-> acc.opp_w + st[opp].wins,
          opp_l |-> acc.opp_l + st[opp].losses,
          opp_t |-> acc.opp_t + st[opp].ties,
          detail |-> Append(acc.detail,
                            <<opp, st[opp].wins, st[opp].losses, st[opp].ties>>)]
    ELSE acc

RECURSIVE OppLoop(_, _, _)
OppLoop(acc, st, opps) ==
    IF opps = <<>> THEN acc
    ELSE OppLoop(AddOpponent(acc, st, Head(opps)), st, Tail(opps))

OppTotals(st, opps) ==
    OppLoop([opp_w |-> 0, opp_l |-> 0, opp_t |-> 0, detail |-> <<>>], st, opps)

\* (mutant) the opponents' ties left out of the numerator
SosValueWinsOnly(o) ==
    LET total_opp_games == o.opp_w + o.opp_l + o.opp_t
    IN IF total_opp_games > 0 THEN FloatDiv(2 * o.opp_w, 2 * total_opp_games)
       ELSE Zero

\* (opp_w + 0.5 * opp_t) / total_opp_games, 0.0 without opponent games
SosValue(o) ==
    LET total_opp_games == o.opp_w + o.opp_l + o.opp_t
    IN IF total_opp_games > 0 THEN FloatDiv(2 * o.opp_w + o.opp_t, 2 * total_opp_games)
       ELSE Zero

SosDetail(st, row) ==
    LET o == OppTotals(st, row.Opponents)
    IN [Team |-> row.Team, SOS |-> SosValue(o),
        OpponentsRecord |-> <<o.opp_w, o.opp_l, o.opp_t>>,
        OpponentsDetail |-> o.detail]

SosDetails(st, standings) == [i \in 1..Len(standings) |-> SosDetail(st, standings[i])]

\* standings_df['SOS'] = sos_values
WithSos(standings, details) ==
    [i \in 1..Len(standings) |->
        [Team |-> standings[i].Team, W |-> standings[i].W, L |-> standings[i].L,
         T |-> standings[i].T, WinPct |-> standings[i].WinPct,
         Opponents |-> standings[i].Opponents, SOS |-> details[i].SOS]]

\* ----------------------------------------------------------- draft order
\* (mutant) sorted by 'Win %' alone
SortsBeforeWinPctOnly(x, y) == FloatLess(x.WinPct, y.WinPct)

\* by=['Win %', 'SOS'], ascending=[True, True]: x sorts strictly before y
SortsBefore(x, y) ==
    \/ FloatLess(x.WinPct, y.WinPct)
    \/ x.WinPct = y.WinPct /\ FloatLess(x.SOS, y.SOS)

\* row put behind every row of the sorted prefix that does not sort after it
InsertRow(sorted, row) ==
    LET p == Cardinality({i \in 1..Len(sorted) : ~SortsBefore(row, sorted[i])})
    IN SubSeq(sorted, 1, p) \o <<row>> \o SubSeq(sorted, p + 1, Len(sorted))

RECURSIVE SortLoop(_, _)
SortLoop(sorted, rows) ==
    IF rows = <<>> THEN sorted ELSE SortLoop(InsertRow(sorted, Head(rows)), Tail(rows))

\* sort_values on two keys is a stable sort (lexsort): ties keep their order
sort_values(df) == SortLoop(<<>>, df)

\* reset_index(drop=True); index += 1
DraftOrder(standings) ==
    LET s == sort_values(standings)
    IN [i \in 1..Len(s) |->
           [Index |-> (i - 1) + 1, Team |-> s[i].Team, W |-> s[i].W, L |-> s[i].L,
            T |-> s[i].T, WinPct |-> s[i].WinPct, SOS |-> s[i].SOS]]

\* everything the script computes from stats
Tables(st, teams) ==
    LET rows == StandingsRows(st, teams)
        details == SosDetails(st, rows)
        standings == WithSos(rows, details)
    IN [standings_df |-> standings, sos_details |-> details,
        draft_order |-> DraftOrder(standings)]

\* one run of the script on the loaded schedule, from the session's picks and
\* widget values
Script(df, picks, widget) ==
    LET ui == UiLoop(scheduled_games(df), picks, widget)
        full == FullSeason(df, ui[1])
        st == calculate_stats(full)
        tb == Tables(st, AllTeams(full))
    IN [user_picks |-> ui[1], radio |-> ui[2], full_season_df |-> full,
        all_teams |-> AllTeams(full), stats |-> st,
        standings_df |-> tb.standings_df, sos_details |-> tb.sos_details,
        draft_order |-> tb.draft_order]

\* ------------------------------------------------------------------ state
VARIABLES
    original_df,     \* load_data(), cached
    user_picks,      \* st.session_state['user_picks']: game_id -> selection
    radio,           \* session values of the radio_<game_id> widgets
    full_season_df,  \* the games handed to calculate_stats
    all_teams,       \* the keys of stats, in insertion order
    stats,           \* team -> record
    pos,             \* rows of full_season_df calculate_stats has processed
    standings_df,
    sos_details,
    draft_order,
    phase            \* "init", "ran", "error" (Spec); "calc", "done" (SpecCalc)

vars == <<original_df, user_picks, radio, full_season_df, all_teams, stats, pos,
          standings_df, sos_details, draft_order, phase>>

NoTables ==
    /\ standings_df = <<>>
    /\ sos_details = <<>>
    /\ draft_order = <<>>

\* ------------------------------------------------------- the script (Spec)
Init ==
    /\ \E csv \in CsvFiles : original_df = load_data(csv)
    /\ user_picks = EmptyDict
    /\ radio = EmptyDict
    /\ full_season_df = <<>>
    /\ all_teams = <<>>
    /\ stats = EmptyDict
    /\ pos = 0
    /\ NoTables
    /\ phase = "init"

RunScript(picks, widget) ==
    \E r \in {Script(original_df, picks, widget)} :
       /\ user_picks' = r.user_picks
       /\ radio' = r.radio
       /\ full_season_df' = r.full_season_df
       /\ all_teams' = r.all_teams
       /\ stats' = r.stats
       /\ pos' = Len(r.full_season_df)
       /\ standings_df' = r.standings_df
       /\ sos_details' = r.sos_details
       /\ draft_order' = r.draft_order
       /\ phase' = "ran"
       /\ UNCHANGED original_df

\* the first run of a session
FirstRun ==
    /\ phase = "init"
    /\ original_df # <<>>
    /\ RunScript(user_picks, radio)

\* original_df.empty: st.error, nothing is computed
NoData ==
    /\ phase = "init"
    /\ original_df = <<>>
    /\ phase' = "error"
    /\ UNCHANGED <<original_df, user_picks, radio, full_season_df, all_teams, stats,
                   pos, standings_df, sos_details, draft_order>>

ScheduledIds == {original_df[i].game_id : i \in {j \in 1..Len(original_df) :
                                                    IsScheduled(original_df[j])}}

\* the user clicks another option of one radio; the script runs again
Select(game_id, option) ==
    /\ phase = "ran"
    /\ game_id \in ScheduledIds
    /\ option # radio[game_id]
    /\ RunScript(user_picks, Put(radio, game_id, option))

\* the script runs again with no widget changed
Rerun ==
    /\ phase = "ran"
    /\ RunScript(user_picks, radio)

\* the page is reloaded: a new session with an empty session_state and no
\* widget values, on the same cached data; its first run follows
NewSession ==
    /\ phase = "ran"
    /\ user_picks' = EmptyDict
    /\ radio' = EmptyDict
    /\ full_season_df' = <<>>
    /\ all_teams' = <<>>
    /\ stats' = EmptyDict
    /\ pos' = 0
    /\ standings_df' = <<>>
    /\ sos_details' = <<>>
    /\ draft_order' = <<>>
    /\ phase' = "init"
    /\ UNCHANGED original_df

Next ==
    \/ FirstRun
    \/ NoData
    \/ \E g \in 1..MaxGames, o \in {"Away", "Tie", "Home"} : Select(g, o)
    \/ Rerun
    \/ NewSession

Spec == Init /\ [][Next]_vars

\* ------------------------------------------- calculate_stats (SpecCalc)
InitCalc ==
    /\ \E csv \in CsvFiles : full_season_df = load_data(csv)
    /\ original_df = <<>>
    /\ user_picks = EmptyDict
    /\ radio = EmptyDict
    /\ all_teams = AllTeams(full_season_df)
    /\ stats = InitStats(full_season_df)
    /\ pos = 0
    /\ NoTables
    /\ phase = "calc"

\* the loop body on the next row
CalcRow ==
    /\ phase = "calc"
    /\ pos < Len(full_season_df)
    /\ stats' = StatsRow(stats, full_season_df[pos + 1])
    /\ pos' = pos + 1
    /\ UNCHANGED <<original_df, user_picks, radio, full_season_df, all_teams,
                   standings_df, sos_details, draft_order, phase>>

\* return stats; standings, SOS and draft order follow
CalcDone ==
    /\ phase = "calc"
    /\ pos = Len(full_season_df)
    /\ LET tb == Tables(stats, all_teams)
       IN /\ standings_df' = tb.standings_df
          /\ sos_details' = tb.sos_details
          /\ draft_order' = tb.draft_order
    /\ phase' = "done"
    /\ UNCHANGED <<original_df, user_picks, radio, full_season_df, all_teams, stats, pos>>

NextCalc == CalcRow \/ CalcDone

SpecCalc == InitCalc /\ [][NextCalc]_vars

\* ================================================================ claims
\* Helpers that read the game list directly, not the records built from it.
RECURSIVE SumTo(_, _)
\* F(1) + ... + F(n)
SumTo(F(_), n) == IF n = 0 THEN 0 ELSE F(n) + SumTo(F, n - 1)

Count(seq, x) == Cardinality({i \in 1..Len(seq) : seq[i] = x})

Decided(row) == ~isna(row.home_score) /\ ~isna(row.away_score)

\* rows of full_season_df that are processed so far and decided
DecidedIdx == {i \in 1..pos : Decided(full_season_df[i])}

Involves(row, t) == row.home_team = t \/ row.away_team = t

Opponent(row, t) == IF row.home_team = t THEN row.away_team ELSE row.home_team

ScheduleTeams(df) ==
    {df[i].home_team : i \in 1..Len(df)} \cup {df[i].away_team : i \in 1..Len(df)}

TotalOf(field) == SumTo(LAMBDA i : stats[all_teams[i]][field], Len(all_teams))

\* C2: after calculate_stats has processed any list of games, the wins of all
\* teams add up to the number of decided games whose scores differ, and the
\* ties of all teams to twice the number of decided games whose scores are equal.
C2_WinsAndTiesTotals ==
    phase \in {"calc", "done"} =>
        /\ TotalOf("wins") =
              Cardinality({i \in DecidedIdx :
                   full_season_df[i].home_score # full_season_df[i].away_score})
        /\ TotalOf("ties") =
              2 * Cardinality({i \in DecidedIdx :
                   full_season_df[i].home_score = full_season_df[i].away_score})

C2_Witness ==
    /\ phase = "done"
    /\ \E i \in DecidedIdx : full_season_df[i].home_score = full_season_df[i].away_score
    /\ \E i \in DecidedIdx : full_season_df[i].home_score # full_season_df[i].away_score

\* the opponents' whole records, one term per decided game of t
OppSum(t, field) ==
    SumTo(LAMBDA i : IF Decided(full_season_df[i]) /\ Involves(full_season_df[i], t)
                     THEN stats[Opponent(full_season_df[i], t)][field] ELSE 0,
          Len(full_season_df))

ClaimedSos(t) ==
    IF OppSum(t, "games") > 0
    THEN FloatDiv(2 * OppSum(t, "wins") + OppSum(t, "ties"), 2 * OppSum(t, "games"))
    ELSE Zero

\* C3: the SOS of every team is (sum of wins + 0.5 * sum of ties) / (sum of
\* games) over the opponents of its decided games, with each opponent's whole
\* record (its games against the team included), and 0.0 when that sum of games is 0.
C3_SosFormula ==
    phase = "done" =>
        \A i \in 1..Len(standings_df) :
            /\ standings_df[i].SOS = ClaimedSos(standings_df[i].Team)
            /\ sos_details[i].SOS = ClaimedSos(sos_details[i].Team)

C3_Witness ==
    /\ phase = "done"
    /\ \E i \in 1..Len(sos_details) :
          /\ sos_details[i].OpponentsRecord[1] > 0
          /\ sos_details[i].OpponentsRecord[3] > 0
          /\ sos_details[i].SOS = ClaimedSos(sos_details[i].Team)

Precedes(x, y) ==
    \/ FloatLess(x.WinPct, y.WinPct)
    \/ x.WinPct = y.WinPct /\ ~FloatLess(y.SOS, x.SOS)

\* C4: the draft order holds every team of the standings exactly once, with
\* its standings values, at ranks 1..N, ascending by win_pct and then by sos;
\* nothing is cut off.
C4_DraftOrderSorted ==
    phase = "done" =>
        /\ Len(draft_order) = Len(standings_df)
        /\ \A i \in 1..Len(draft_order) : draft_order[i].Index = i
        /\ \A i \in 1..Len(standings_df) :
              \E j \in 1..Len(draft_order) :
                  /\ draft_order[j].Team = standings_df[i].Team
                  /\ draft_order[j].WinPct = standings_df[i].WinPct
                  /\ draft_order[j].SOS = standings_df[i].SOS
                  /\ \A k \in 1..Len(draft_order) :
                        draft_order[k].Team = standings_df[i].Team => k = j
        /\ \A i, j \in 1..Len(draft_order) :
              i < j => Precedes(draft_order[i], draft_order[j])

\* two teams with the same win_pct that the sort had to swap on their sos
C4_Witness ==
    /\ phase = "done"
    /\ Len(draft_order) = 3
    /\ \E i, j \in 1..Len(standings_df) :
          /\ i < j
          /\ standings_df[i].WinPct = standings_df[j].WinPct
          /\ FloatLess(standings_df[j].SOS, standings_df[i].SOS)
          /\ \E a, b \in 1..Len(draft_order) :
                /\ a < b
                /\ draft_order[a].Team = standings_df[j].Team
                /\ draft_order[b].Team = standings_df[i].Team

NoDecidedGame(t) ==
    \A i \in 1..Len(full_season_df) :
        Involves(full_season_df[i], t) => ~Decided(full_season_df[i])

\* C5: every team named as home or away in any game has a record; a team
\* without a decided game has an all-zero record, no opponents, win_pct 0.0
\* and sos 0.0.
C5_EveryTeamHasRecord ==
    phase \in {"calc", "done"} =>
        /\ ScheduleTeams(full_season_df) \subseteq DOMAIN stats
        /\ \A t \in ScheduleTeams(full_season_df) :
              NoDecidedGame(t) => stats[t] = ZeroRecord
        /\ phase = "done" =>
              /\ ScheduleTeams(full_season_df) =
                    {standings_df[i].Team : i \in 1..Len(standings_df)}
              /\ \A i \in 1..Len(standings_df) :
                    NoDecidedGame(standings_df[i].Team) =>
                        /\ standings_df[i].WinPct = Zero
                        /\ standings_df[i].SOS = Zero
                        /\ standings_df[i].W = 0 /\ standings_df[i].L = 0
                        /\ standings_df[i].T = 0

\* a team without a decided game next to teams that played
C5_Witness ==
    /\ phase = "done"
    /\ \E t \in ScheduleTeams(full_season_df) : NoDecidedGame(t)
    /\ \E t \in ScheduleTeams(full_season_df) : ~NoDecidedGame(t)

GamesBetween(a, b) ==
    Cardinality({i \in DecidedIdx : Involves(full_season_df[i], a)
                                    /\ Opponent(full_season_df[i], a) = b})

WeightedSum(a, field) ==
    SumTo(LAMBDA i : GamesBetween(a, all_teams[i]) * stats[all_teams[i]][field],
          Len(all_teams))

\* C6: B occurs in A's opponents list once per decided game between A and B,
\* and as often as A occurs in B's; B's record enters A's SOS sums once per
\* such game (twice for a rematch).
C6_RematchWeights ==
    phase \in {"calc", "done"} =>
        /\ \A a, b \in DOMAIN stats :
              /\ Count(stats[a].opponents, b) = GamesBetween(a, b)
              /\ Count(stats[a].opponents, b) = Count(stats[b].opponents, a)
        /\ phase = "done" =>
              \A i \in 1..Len(sos_details) :
                  sos_details[i].OpponentsRecord =
                      <<WeightedSum(sos_details[i].Team, "wins"),
                        WeightedSum(sos_details[i].Team, "losses"),
                        WeightedSum(sos_details[i].Team, "ties")>>

C6_Witness ==
    /\ phase = "done"
    /\ \E a, b \in DOMAIN stats :
          /\ GamesBetween(a, b) = 2
          /\ Count(stats[a].opponents, b) = 2
          /\ Count(stats[b].opponents, a) = 2

\* C9: a game with a null score is skipped: the records are those of the same
\* teams with the null-score games taken out of the list.
C9_NullScoresSkipped ==
    phase \in {"calc", "done"} =>
        stats = StatsLoop(InitStats(full_season_df),
                          SelectSeq(SubSeq(full_season_df, 1, pos), Decided))

C9_Witness ==
    /\ phase = "done"
    /\ \E i \in 1..Len(full_season_df) : isna(full_season_df[i].home_score)
    /\ \E i \in 1..Len(full_season_df) : isna(full_season_df[i].away_score)
    /\ DecidedIdx # {}

GamesOfOpponents(opps) == SumTo(LAMBDA k : stats[opps[k]].games, Len(opps))

\* C10: after any prefix of the game list every record has games = wins +
\* losses + ties = length of its opponents list, so the SOS denominator
\* opp_w + opp_l + opp_t is the sum of the opponents' games.
C10_GamesConsistent ==
    phase \in {"calc", "done"} =>
        /\ \A t \in DOMAIN stats :
              /\ stats[t].games = stats[t].wins + stats[t].losses + stats[t].ties
              /\ stats[t].games = Len(stats[t].opponents)
        /\ phase = "done" =>
              \A i \in 1..Len(sos_details) :
                  sos_details[i].OpponentsRecord[1] + sos_details[i].OpponentsRecord[2]
                      + sos_details[i].OpponentsRecord[3]
                  = GamesOfOpponents(standings_df[i].Opponents)

\* in the middle of the loop, a decided game behind and a row ahead
C10_Witness ==
    /\ phase = "calc"
    /\ 0 < pos /\ pos < Len(full_season_df)
    /\ \E t \in DOMAIN stats : stats[t].games > 0

\* ---------------------------------------------------- claims on the script
\* the scheduled rows that have a stored pick when the run starts
HasStoredPick(row) == row.game_id \in DOMAIN user_picks

TieRow(row) ==
    [week |-> row.week, home_team |-> row.home_team, away_team |-> row.away_team,
     home_score |-> 20, away_score |-> 20, status |-> "Simulated", game_id |-> NaN]

\* The season with the games without a stored pick left out.
SeasonWithoutUnresolved(df, picks_after) ==
    LET sched == SelectSeq(scheduled_games(df), HasStoredPick)
    IN final_games(df) \o [i \in 1..Len(sched) |-> SimulatedRow(sched[i], picks_after)]

\* The season with the games without a stored pick entered as 20-20 ties.
SeasonWithUnresolvedTied(df, picks_after) ==
    LET sched == scheduled_games(df)
    IN final_games(df) \o
       [i \in 1..Len(sched) |->
           IF HasStoredPick(sched[i]) THEN SimulatedRow(sched[i], picks_after)
           ELSE TieRow(sched[i])]

\* C1 as claimed: a scheduled game with no stored pick when the script runs
\* adds nothing to the games, wins, losses, ties or opponents of any team.
C1_UnresolvedExcluded ==
    [][phase' = "ran" =>
         stats' = StatsLoop([t \in DOMAIN stats' |-> ZeroRecord],
                            SeasonWithoutUnresolved(original_df, user_picks'))]_vars

\* C1 amended: a scheduled game with no stored pick when the script runs is
\* stored as the pick Tie and aggregated as a 20-20 tie: one game and one tie
\* for each of its teams, each appended to the other's opponents.
C1_UnresolvedCountsAsTie ==
    [][phase' = "ran" =>
         /\ \A i \in 1..Len(original_df) :
               IsScheduled(original_df[i]) /\ ~HasStoredPick(original_df[i])
                   => user_picks'[original_df[i].game_id] = "Tie"
         /\ full_season_df' = SeasonWithUnresolvedTied(original_df, user_picks')
         /\ stats' = StatsLoop([t \in DOMAIN stats' |-> ZeroRecord],
                               SeasonWithUnresolvedTied(original_df, user_picks'))]_vars

\* after a first run: a scheduled game nobody picked, counted as a tie
C1_Witness ==
    /\ phase = "ran"
    /\ \A g \in ScheduledIds : user_picks[g] = "Tie"
    /\ \E i \in 1..Len(original_df) :
          /\ IsScheduled(original_df[i])
          /\ stats[original_df[i].home_team].ties > 0
          /\ stats[original_df[i].away_team].ties > 0
          /\ \E k \in 1..Len(stats[original_df[i].home_team].opponents) :
                stats[original_df[i].home_team].opponents[k] = original_df[i].away_team

\* "Home", "Away" or "Tie": the real result of a Final game, the stored pick
\* of a scheduled one
Outcome(row) ==
    IF IsFinal(row)
    THEN IF row.home_score > row.away_score THEN "Home"
         ELSE IF row.away_score > row.home_score THEN "Away"
         ELSE "Tie"
    ELSE user_picks[row.game_id]

Credited(t, side, other) ==
    Cardinality({i \in 1..Len(original_df) :
        \/ original_df[i].home_team = t /\ Outcome(original_df[i]) = side
        \/ original_df[i].away_team = t /\ Outcome(original_df[i]) = other})

\* C7: a Final game enters aggregation with its real scores and is classified
\* by comparing them; a scheduled game picked Home is a win for the home team
\* and a loss for the away team, picked Away the reverse, picked Tie a tie
\* for both.
C7_OutcomesCredited ==
    phase = "ran" =>
        /\ SubSeq(full_season_df, 1, Len(final_games(original_df)))
              = final_games(original_df)
        /\ Len(full_season_df) = Len(original_df)
        /\ DOMAIN stats = ScheduleTeams(original_df)
        /\ \A t \in DOMAIN stats :
              /\ stats[t].wins = Credited(t, "Home", "Away")
              /\ stats[t].losses = Credited(t, "Away", "Home")
              /\ stats[t].ties = Credited(t, "Tie", "Tie")

C7_Witness ==
    /\ phase = "ran"
    /\ \E i \in 1..Len(original_df) :
          IsFinal(original_df[i]) /\ Outcome(original_df[i]) # "Tie"
    /\ \E i \in 1..Len(original_df) :
          IsScheduled(original_df[i]) /\ Outcome(original_df[i]) = "Home"

\* C8: the tables shown are those a fresh session computes from the loaded
\* schedule and the options currently selected, whatever was selected before.
C8_OutputFromCurrentPicks ==
    phase = "ran" =>
        \E fresh \in {Script(original_df, radio, EmptyDict)} :
            /\ draft_order = fresh.draft_order
            /\ standings_df = fresh.standings_df
            /\ sos_details = fresh.sos_details
            /\ user_picks = radio

\* a pick changed away from the default
C8_Witness ==
    /\ phase = "ran"
    /\ \E g \in ScheduledIds : user_picks[g] = "Away"
    /\ \E i \in 1..Len(draft_order) : draft_order[i].WinPct # Zero

====
